---- MODULE Spec2Model ----
(***************************************************************************)
(* A model of the workflow functions shown in the documentation pages, run *)
(* under the step semantics the pages themselves describe (checkpoints,    *)
(* memoized step results, automatic retries, waitForEvent with an `if`     *)
(* expression, concurrency limits), and of the exported theme              *)
(* configuration.                                                          *)
(*                                                                         *)
(*   Spec       one run of one function, driven by the execution engine    *)
(*   SpecFlow   the admission of runs under a concurrency configuration    *)
(*   SpecTheme  the theme configuration being read by the site renderer    *)
(***************************************************************************)
EXTENDS Integers, Sequences, FiniteSets, TLC

VARIABLES
    fn,         \* the function this run executes
    event,      \* the triggering event
    pc,         \* the handler's position: the step call it is at
    memo,       \* saved step results, by step id
    execCount,  \* how often each step's callback (or operation) was executed
    failCount,  \* how often each step's callback threw
    okCount,    \* how often each step completed successfully
    attempt,    \* retries used up by the step (or handler) failing now
    status,     \* "running", "completed" or "failed"
    lastError,  \* the class of the error that ended the run
    outbox,     \* events sent with step.sendEvent, in order
    trace,      \* step ids in the order their results were saved
    last,       \* what the engine did last
    subStatus,  \* db.subscriptions: the subscription's status
    cfn,        \* flow control: the function whose runs are admitted
    queued,     \* flow control: runs waiting to start, by userId
    running,    \* flow control: runs executing, by userId
    config,     \* the theme configuration object
    rendered    \* the configuration values each page was rendered with

engineVars == <<fn, event, pc, memo, execCount, failCount, okCount, attempt,
                status, lastError, outbox, trace, last, subStatus>>
flowVars == <<cfn, queued, running>>
themeVars == <<config, rendered>>
notEngine == <<flowVars, themeVars>>
vars == <<engineVars, flowVars, themeVars>>

----------------------------------------------------------------------------
(* Bounds of the model *)

\* retries of a step in a function that configures none
MaxRetries == 2
\* runs of one function that one user may have queued or executing
MaxPending == 6
\* pages rendered with the theme configuration
NumPages == 2

Users == {"u1", "u2"}
Entities == {"e1", "e2"}

----------------------------------------------------------------------------
(* The functions *)

sendWelcomeEmail == "sendWelcomeEmail"
processOrder == "processOrder"
processOrderWithSteps == "processOrderWithSteps"
userOnboardingSequence == "userOnboardingSequence"
orderOrchestrator == "orderOrchestrator"
processSubscriptionBilling == "processSubscriptionBilling"
contentModerationPipeline == "contentModerationPipeline"
expenseApproval == "expenseApproval"

Functions == {sendWelcomeEmail, processOrder, processOrderWithSteps,
              userOnboardingSequence, orderOrchestrator,
              processSubscriptionBilling, contentModerationPipeline,
              expenseApproval}

\* the functions that are a plain sequence of step.run calls
sendWelcomeEmailSteps == <<"fetch-user", "send-email", "track-event">>
processOrderSteps == <<"charge-card", "create-shipment", "send-confirmation">>
processOrderWithStepsSteps ==
    <<"fetch-order", "charge-payment", "update-inventory", "create-shipment",
      "send-notification">>

Sequential == {sendWelcomeEmail, processOrder, processOrderWithSteps}

StepSeq(f) ==
    CASE f = sendWelcomeEmail -> sendWelcomeEmailSteps
      [] f = processOrder -> processOrderSteps
      [] f = processOrderWithSteps -> processOrderWithStepsSteps

Range(s) == {s[i] : i \in 1..Len(s)}
IndexOf(s, x) == CHOOSE i \in 1..Len(s) : s[i] = x

----------------------------------------------------------------------------
(* Step results *)

NoResult == [tag |-> "none"]
Null == [tag |-> "null"]
Saved(r) == r.tag # "none"
Done(v) == [tag |-> "ok", val |-> v]
Thrown(err) == [tag |-> "error", class |-> err.class, msg |-> err.msg]
Received(e) == [tag |-> "event", ev |-> e]
Returned(s) == [tag |-> "returned", status |-> s]

----------------------------------------------------------------------------
(* processSubscriptionBilling: the ids of the loop's steps *)

MAX_PAYMENT_RETRIES == 3

AttemptId(k) ==
    CASE k = 1 -> "attempt-payment-1"
      [] k = 2 -> "attempt-payment-2"
      [] k = 3 -> "attempt-payment-3"

WaitBeforeRetryId(k) ==
    CASE k = 1 -> "wait-before-retry-1"
      [] k = 2 -> "wait-before-retry-2"

AttemptIds == {AttemptId(k) : k \in 1..MAX_PAYMENT_RETRIES}
WaitBeforeRetryIds == {WaitBeforeRetryId(k) : k \in 1..(MAX_PAYMENT_RETRIES - 1)}
AttemptOf(l) == CHOOSE k \in 1..MAX_PAYMENT_RETRIES : AttemptId(k) = l
WaitOf(l) == CHOOSE k \in 1..(MAX_PAYMENT_RETRIES - 1) : WaitBeforeRetryId(k) = l

\* paymentGateway.isPermanentDecline
isPermanentDecline(msg) == msg = "card_lost_or_stolen"

----------------------------------------------------------------------------
(* The step calls of each function, and what each one is *)

StepIds(f) ==
    CASE f \in Sequential -> Range(StepSeq(f))
      [] f = userOnboardingSequence ->
            {"send-welcome-email", "wait-2-days", "send-follow-up-tips",
             "wait-for-feature-activation", "send-activation-congrats-email",
             "send-re-engagement-email"}
      [] f = orderOrchestrator ->
            {"invoke-process-payment", "send-payment-failed-notification",
             "update-inventory", "invoke-fulfill-order",
             "send-order-confirmation-email"}
      [] f = processSubscriptionBilling ->
            AttemptIds \cup WaitBeforeRetryIds \cup
            {"send-payment-succeeded-event", "update-db-subscription-success",
             "send-payment-failed-event", "update-db-subscription-failure"}
      [] f = contentModerationPipeline ->
            {"ai-text-analysis", "auto-approve-content", "auto-reject-content",
             "queue-for-human-review", "wait-for-human-review",
             "apply-human-decision", "handle-review-timeout"}
      [] f = expenseApproval ->
            {"submit-for-approval", "wait-for-approval", "process-reimbursement"}

\* the handler's first step call
Entry(f) ==
    CASE f \in Sequential -> StepSeq(f)[1]
      [] f = userOnboardingSequence -> "send-welcome-email"
      [] f = orderOrchestrator -> "invoke-process-payment"
      [] f = processSubscriptionBilling -> AttemptId(1)
      [] f = contentModerationPipeline -> "ai-text-analysis"
      [] f = expenseApproval -> "submit-for-approval"

\* the step tool called at l: step.run unless listed
Kind(f, l) ==
    CASE l = "return" -> "return"
      [] l = "throw" -> "throw"
      [] l \in {"wait-2-days"} \cup WaitBeforeRetryIds -> "sleep"
      [] l \in {"wait-for-feature-activation", "wait-for-human-review",
                "wait-for-approval"} -> "waitForEvent"
      [] l \in {"invoke-process-payment", "invoke-fulfill-order"} -> "invoke"
      [] l \in {"send-payment-failed-notification",
                "send-payment-succeeded-event",
                "send-payment-failed-event"} -> "sendEvent"
      [] OTHER -> "run"

\* retries: the function's configuration
Retries(f) ==
    CASE f = userOnboardingSequence -> 3
      [] f = orderOrchestrator -> 2
      [] OTHER -> MaxRetries

\* whether the step call at l stands in a try block whose catch handles its error
Catches(f, l) ==
    \/ f = orderOrchestrator /\ l = "invoke-process-payment"
    \/ f = processSubscriptionBilling /\ l \in AttemptIds


\* as ThrowClass, with a plain Error thrown
ThrowPlainError(f, l) == "Error"

\* the class of the error a throw statement of the handler raises
ThrowClass(f, l) == "NonRetriableError"

----------------------------------------------------------------------------
(* Events *)

\* the event that triggers f, for user u and entity e
TriggerEvent(f, u, e) ==
    CASE f = sendWelcomeEmail ->
            [name |-> "user/signup", data |-> [userId |-> u]]
      [] f \in {processOrder, processOrderWithSteps} ->
            [name |-> "order/created", data |-> [orderId |-> e]]
      [] f = userOnboardingSequence ->
            [name |-> "user/signup", data |-> [userId |-> u]]
      [] f = orderOrchestrator ->
            [name |-> "order/created", data |-> [orderId |-> e, userId |-> u]]
      [] f = processSubscriptionBilling ->
            [name |-> "billing_cycle/due",
             data |-> [subscriptionId |-> e, userId |-> u, amount |-> 29]]
      [] f = contentModerationPipeline ->
            [name |-> "content/submitted", data |-> [contentId |-> e, userId |-> u]]
      [] f = expenseApproval ->
            [name |-> "expense/submitted", data |-> [reportId |-> e]]

UserActivatedFeatureEvent(u) ==
    [name |-> "user/activated_feature_X", data |-> [userId |-> u]]
HumanReviewCompleted(c, d) ==
    [name |-> "content/human_review_completed",
     data |-> [contentId |-> c, decision |-> d]]
ApprovedOrDenied(r, st) ==
    [name |-> "expense/approved_or_denied", data |-> [reportId |-> r, status |-> st]]

\* the events that may arrive while a run waits
IncomingEvents ==
    {UserActivatedFeatureEvent(u) : u \in Users}
    \cup {HumanReviewCompleted(c, d) : c \in Entities, d \in {"approved", "rejected"}}
    \cup {ApprovedOrDenied(r, st) : r \in Entities, st \in {"approved", "denied"}}

\* the expression `event.data.<field> == "${value}"`
IfEquals(field, value) == [field |-> field, value |-> value]


\* as EvalIf, with the expression not evaluated
EvalIfIgnored(expr, e) == TRUE

\* an `if` expression, evaluated against an event's data payload
EvalIf(expr, e) ==
    /\ expr.field \in DOMAIN e.data
    /\ e.data[expr.field] = expr.value

\* the options of the step.waitForEvent call at l
WaitSpec(f, l, ev) ==
    CASE f = userOnboardingSequence ->
            [event |-> "user/activated_feature_X",
             if |-> IfEquals("userId", ev.data.userId)]
      [] f = contentModerationPipeline ->
            [event |-> "content/human_review_completed",
             if |-> IfEquals("contentId", ev.data.contentId)]
      [] f = expenseApproval ->
            [event |-> "expense/approved_or_denied",
             if |-> IfEquals("reportId", ev.data.reportId)]

\* whether event e resolves a wait with options w
Matches(w, e) == e.name = w.event /\ EvalIf(w.if, e)

----------------------------------------------------------------------------
(* What the steps' callbacks and invoked functions can yield *)

TransientError == [class |-> "Error", msg |-> "Transient payment gateway error"]

\* the results a step.run callback can return
Values(f, l) ==
    IF f = contentModerationPipeline /\ l = "ai-text-analysis"
    THEN [isSafe : BOOLEAN, confidence : {80, 93, 97}]
    ELSE {[success |-> TRUE]}

\* the errors a step.run callback can throw
Failures(f, l) ==
    IF f = processSubscriptionBilling /\ l \in AttemptIds
    THEN {TransientError,
          [class |-> "Error", msg |-> "card_lost_or_stolen"],
          [class |-> "NonRetriableError", msg |-> "declined"]}
    ELSE {[class |-> "Error", msg |-> "failed"]}

\* what a step.invoke can yield: the invoked function's result, or its error
InvokeOutcomes(f, l) ==
    IF l = "invoke-process-payment"
    THEN {Returned(st) : st \in {"succeeded", "failed", "pending"}}
         \cup {Thrown([class |-> "Error", msg |-> "invoke failed"])}
    ELSE {Returned("fulfilled"),
          Thrown([class |-> "Error", msg |-> "invoke failed"])}

\* db.subscriptions.update in the step.run callback at l
Effect(f, l, st) ==
    CASE f = processSubscriptionBilling /\ l = "update-db-subscription-success"
            -> "active"
      [] f = processSubscriptionBilling /\ l = "update-db-subscription-failure"
            -> "past_due"
      [] OTHER -> st

----------------------------------------------------------------------------
(* The handlers' control flow: the step call reached after the one at l has
   yielded r *)

\* confidence thresholds of contentModerationPipeline, in percent
AutoApproveConfidence == 95
AutoRejectConfidence == 90


\* as PaymentSucceeded, with the returned status not looked at
PaymentReturned(r) == r.tag = "returned"

\* orderOrchestrator: paymentResult.status !== "succeeded" does not throw
PaymentSucceeded(r) == r.tag = "returned" /\ r.status = "succeeded"


\* as Activated, with only a missing result taken for "no event"
ActivatedUnlessUndefined(r) == r.tag # "none"

\* userOnboardingSequence: if (activationEvent)
Activated(r) == r.tag = "event"


\* as SuccSequential, with the call after the first step not awaited
SuccSequentialSkip(f, l) ==
    LET i == IndexOf(StepSeq(f), l)
        j == IF i = 1 THEN 3 ELSE i + 1
    IN  IF j <= Len(StepSeq(f)) THEN StepSeq(f)[j] ELSE "return"

SuccSequential(f, l) ==
    LET i == IndexOf(StepSeq(f), l)
    IN  IF i < Len(StepSeq(f)) THEN StepSeq(f)[i + 1] ELSE "return"

SuccOnboarding(l, r) ==
    CASE l = "send-welcome-email" -> "wait-2-days"
      [] l = "wait-2-days" -> "send-follow-up-tips"
      [] l = "send-follow-up-tips" -> "wait-for-feature-activation"
      [] l = "wait-for-feature-activation" ->
            IF Activated(r) THEN "send-activation-congrats-email"
                            ELSE "send-re-engagement-email"
      [] l = "send-activation-congrats-email" -> "return"
      [] l = "send-re-engagement-email" -> "return"

SuccOrchestrator(l, r) ==
    CASE l = "invoke-process-payment" ->
            IF PaymentSucceeded(r) THEN "update-inventory"
                                   ELSE "send-payment-failed-notification"
      [] l = "send-payment-failed-notification" -> "throw"
      [] l = "update-inventory" -> "invoke-fulfill-order"
      [] l = "invoke-fulfill-order" -> "send-order-confirmation-email"
      [] l = "send-order-confirmation-email" -> "return"

SuccBilling(l, r) ==
    CASE l \in AttemptIds ->
            IF r.tag = "ok" THEN "send-payment-succeeded-event"
            ELSE IF r.class = "NonRetriableError" \/ isPermanentDecline(r.msg)
                 THEN "send-payment-failed-event"
            ELSE IF AttemptOf(l) < MAX_PAYMENT_RETRIES
                 THEN WaitBeforeRetryId(AttemptOf(l))
            ELSE "send-payment-failed-event"
      [] l \in WaitBeforeRetryIds -> AttemptId(WaitOf(l) + 1)
      [] l = "send-payment-succeeded-event" -> "update-db-subscription-success"
      [] l = "update-db-subscription-success" -> "return"
      [] l = "send-payment-failed-event" -> "update-db-subscription-failure"
      [] l = "update-db-subscription-failure" -> "return"

SuccModeration(l, r) ==
    CASE l = "ai-text-analysis" ->
            IF r.val.isSafe /\ r.val.confidence > AutoApproveConfidence
            THEN "auto-approve-content"
            ELSE IF ~r.val.isSafe /\ r.val.confidence > AutoRejectConfidence
            THEN "auto-reject-content"
            ELSE "queue-for-human-review"
      [] l = "auto-approve-content" -> "return"
      [] l = "auto-reject-content" -> "return"
      [] l = "queue-for-human-review" -> "wait-for-human-review"
      [] l = "wait-for-human-review" ->
            IF r.tag = "event" THEN "apply-human-decision"
                               ELSE "handle-review-timeout"
      [] l = "apply-human-decision" -> "return"
      [] l = "handle-review-timeout" -> "return"

SuccExpense(l, r) ==
    CASE l = "submit-for-approval" -> "wait-for-approval"
      [] l = "wait-for-approval" ->
            IF r.tag = "event" /\ r.ev.data.status = "approved"
            THEN "process-reimbursement" ELSE "return"
      [] l = "process-reimbursement" -> "return"

Succ(f, l, r) ==
    CASE f \in Sequential -> SuccSequential(f, l)
      [] f = userOnboardingSequence -> SuccOnboarding(l, r)
      [] f = orderOrchestrator -> SuccOrchestrator(l, r)
      [] f = processSubscriptionBilling -> SuccBilling(l, r)
      [] f = contentModerationPipeline -> SuccModeration(l, r)
      [] f = expenseApproval -> SuccExpense(l, r)

----------------------------------------------------------------------------
(* The events the handlers send *)

\* orderOrchestrator: error.message in the catch block
PaymentErrorMessage(r) ==
    IF r.tag = "error" THEN r.msg
    ELSE CASE r.status = "failed" -> "Payment failed with status: failed"
           [] r.status = "pending" -> "Payment failed with status: pending"
           [] OTHER -> "Payment failed with status"

\* processSubscriptionBilling: lastPaymentError after the loop
LastPaymentError(m) ==
    LET failed == {k \in 1..MAX_PAYMENT_RETRIES : m[AttemptId(k)].tag = "error"}
    IN  IF failed = {} THEN "null"
        ELSE m[AttemptId(CHOOSE k \in failed : \A j \in failed : j <= k)].msg

PaymentFailedEventName == "subscription/payment_failed_final"

\* the event the step.sendEvent call at l sends
EventToSend(f, l, ev, m) ==
    CASE l = "send-payment-failed-notification" ->
            [name |-> "user/payment_failed",
             data |-> [userId |-> ev.data.userId, orderId |-> ev.data.orderId,
                       reason |-> PaymentErrorMessage(m["invoke-process-payment"])]]
      [] l = "send-payment-succeeded-event" ->
            [name |-> "subscription/payment_succeeded",
             data |-> [subscriptionId |-> ev.data.subscriptionId,
                       userId |-> ev.data.userId, amount |-> ev.data.amount]]
      [] l = "send-payment-failed-event" ->
            [name |-> PaymentFailedEventName,
             data |-> [subscriptionId |-> ev.data.subscriptionId,
                       userId |-> ev.data.userId,
                       reason |-> LastPaymentError(m)]]

----------------------------------------------------------------------------
(* The theme configuration *)


\* as ThemeConfig, with the chat link left empty
ThemeConfigEmptyChat ==
    [logo |-> [type |-> "span", children |-> "Inngest Core"],
     project |-> [link |-> "https://github.com/inngest"],
     chat |-> [link |-> ""],
     docsRepositoryBase |-> "https://github.com/inngest/website",
     footer |-> [content |-> "Inngest Docs"]]

\* const config: DocsThemeConfig
ThemeConfig ==
    [logo |-> [type |-> "span", children |-> "Inngest Core"],
     project |-> [link |-> "https://github.com/inngest"],
     chat |-> [link |-> "https://discord.com/invite/mPfcyDEdpx"],
     docsRepositoryBase |-> "https://github.com/inngest/website",
     footer |-> [content |-> "Inngest Docs"]]

Pages == 1..NumPages

\* the values the renderer reads from the exported object
ConfigPaths ==
    {"logo", "project.link", "chat.link", "docsRepositoryBase", "footer.content"}

----------------------------------------------------------------------------
(* The execution engine: one run of fn *)

Running == status = "running"
AtStep(kind) == Running /\ pc \in StepIds(fn) /\ Kind(fn, pc) = kind


\* as Memoized, with the saved results never looked up
MemoizedNever(l) == FALSE

\* whether a result of the step with id l is saved
Memoized(l) == Saved(memo[l])


\* the engine saves result r of the step call at pc; the handler goes on
Save(r) ==
    /\ memo' = [memo EXCEPT ![pc] = r]
    /\ trace' = Append(trace, pc)
    /\ pc' = Succ(fn, pc, r)

\* the run ends with an error of class c
Fail(c) ==
    /\ status' = "failed"
    /\ lastError' = c

\* a step call whose result is saved returns it; its callback is not executed
ReturnMemoized ==
    /\ Running /\ pc \in StepIds(fn)
    /\ Memoized(pc)
    /\ pc' = Succ(fn, pc, memo[pc])
    /\ last' = [op |-> "memoized", step |-> pc]
    /\ UNCHANGED <<fn, event, memo, execCount, failCount, okCount, attempt,
                   status, lastError, outbox, trace, subStatus>>
    /\ UNCHANGED notEngine

\* step.run: the callback is executed and returns v
RunSucceed(v) ==
    /\ AtStep("run")
    /\ ~Memoized(pc)
    /\ v \in Values(fn, pc)
    /\ execCount' = [execCount EXCEPT ![pc] = @ + 1]
    /\ okCount' = [okCount EXCEPT ![pc] = @ + 1]
    /\ Save(Done(v))
    /\ attempt' = 0
    /\ subStatus' = Effect(fn, pc, subStatus)
    /\ last' = [op |-> "executed", step |-> pc]
    /\ UNCHANGED <<fn, event, failCount, status, lastError, outbox>>
    /\ UNCHANGED notEngine

\* step.run: the callback is executed and throws err. The step is retried (the
\* function is executed again, saved results reused) while retries are left;
\* after that the error reaches the handler.
RunFail(err) ==
    /\ AtStep("run")
    /\ ~Memoized(pc)
    /\ err \in Failures(fn, pc)
    /\ execCount' = [execCount EXCEPT ![pc] = @ + 1]
    /\ failCount' = [failCount EXCEPT ![pc] = @ + 1]
    /\ last' = [op |-> "failed", step |-> pc]
    /\ IF err.class # "NonRetriableError" /\ attempt < Retries(fn)
       THEN /\ attempt' = attempt + 1
            /\ pc' = Entry(fn)
            /\ UNCHANGED <<memo, trace, status, lastError>>
       ELSE IF Catches(fn, pc)
       THEN /\ Save(Thrown(err))
            /\ attempt' = 0
            /\ UNCHANGED <<status, lastError>>
       ELSE /\ Fail(err.class)
            /\ UNCHANGED <<memo, trace, pc, attempt>>
    /\ UNCHANGED <<fn, event, okCount, outbox, subStatus>>
    /\ UNCHANGED notEngine

\* step.sleep: the run pauses and resumes when the duration has passed
Sleep ==
    /\ AtStep("sleep")
    /\ ~Memoized(pc)
    /\ execCount' = [execCount EXCEPT ![pc] = @ + 1]
    /\ okCount' = [okCount EXCEPT ![pc] = @ + 1]
    /\ Save(Done([slept |-> TRUE]))
    /\ last' = [op |-> "slept", step |-> pc]
    /\ UNCHANGED <<fn, event, failCount, attempt, status, lastError, outbox,
                   subStatus>>
    /\ UNCHANGED notEngine

\* step.waitForEvent: event e arrives while the run waits; it resumes the run
\* if it matches the wait's options, and is none of the run's business if not
EventArrives(e) ==
    /\ AtStep("waitForEvent")
    /\ ~Memoized(pc)
    /\ e \in IncomingEvents
    /\ IF Matches(WaitSpec(fn, pc, event), e)
       THEN /\ Save(Received(e))
            /\ okCount' = [okCount EXCEPT ![pc] = @ + 1]
            /\ last' = [op |-> "resumed", step |-> pc, ev |-> e]
       ELSE /\ last' = [op |-> "ignored", step |-> pc, ev |-> e]
            /\ UNCHANGED <<memo, trace, pc, okCount>>
    /\ UNCHANGED <<fn, event, execCount, failCount, attempt, status, lastError,
                   outbox, subStatus>>
    /\ UNCHANGED notEngine

\* step.waitForEvent: the timeout passes; the call returns null
WaitTimeout ==
    /\ AtStep("waitForEvent")
    /\ ~Memoized(pc)
    /\ Save(Null)
    /\ okCount' = [okCount EXCEPT ![pc] = @ + 1]
    /\ last' = [op |-> "timeout", step |-> pc]
    /\ UNCHANGED <<fn, event, execCount, failCount, attempt, status, lastError,
                   outbox, subStatus>>
    /\ UNCHANGED notEngine

\* step.invoke: the invoked function returns, or fails
Invoke(o) ==
    /\ AtStep("invoke")
    /\ ~Memoized(pc)
    /\ o \in InvokeOutcomes(fn, pc)
    /\ execCount' = [execCount EXCEPT ![pc] = @ + 1]
    /\ last' = [op |-> "invoked", step |-> pc]
    /\ IF o.tag = "error" /\ ~Catches(fn, pc)
       THEN /\ Fail(o.class)
            /\ failCount' = [failCount EXCEPT ![pc] = @ + 1]
            /\ UNCHANGED <<memo, trace, pc, okCount>>
       ELSE /\ Save(o)
            /\ IF o.tag = "error"
               THEN /\ failCount' = [failCount EXCEPT ![pc] = @ + 1]
                    /\ UNCHANGED okCount
               ELSE /\ okCount' = [okCount EXCEPT ![pc] = @ + 1]
                    /\ UNCHANGED failCount
            /\ UNCHANGED <<status, lastError>>
    /\ UNCHANGED <<fn, event, attempt, outbox, subStatus>>
    /\ UNCHANGED notEngine

\* step.sendEvent
SendEvent ==
    /\ AtStep("sendEvent")
    /\ ~Memoized(pc)
    /\ outbox' = Append(outbox, EventToSend(fn, pc, event, memo))
    /\ execCount' = [execCount EXCEPT ![pc] = @ + 1]
    /\ okCount' = [okCount EXCEPT ![pc] = @ + 1]
    /\ Save(Done([sent |-> TRUE]))
    /\ last' = [op |-> "sent", step |-> pc]
    /\ UNCHANGED <<fn, event, failCount, attempt, status, lastError, subStatus>>
    /\ UNCHANGED notEngine

\* the handler returns
Return ==
    /\ Running /\ pc = "return"
    /\ status' = "completed"
    /\ last' = [op |-> "returned", step |-> pc]
    /\ UNCHANGED <<fn, event, pc, memo, execCount, failCount, okCount, attempt,
                   lastError, outbox, trace, subStatus>>
    /\ UNCHANGED notEngine

\* the handler throws: a NonRetriableError ends the run, any other error makes
\* the engine execute the function again while retries are left
Throw ==
    /\ Running /\ pc = "throw"
    /\ last' = [op |-> "threw", step |-> pc]
    /\ IF ThrowClass(fn, pc) = "NonRetriableError" \/ attempt >= Retries(fn)
       THEN /\ Fail(ThrowClass(fn, pc))
            /\ UNCHANGED <<pc, attempt>>
       ELSE /\ attempt' = attempt + 1
            /\ pc' = Entry(fn)
            /\ UNCHANGED <<status, lastError>>
    /\ UNCHANGED <<fn, event, memo, execCount, failCount, okCount, outbox,
                   trace, subStatus>>
    /\ UNCHANGED notEngine

\* as Replay, with the saved results lost when the function is executed again
ReplayForgetting ==
    /\ Running
    /\ pc # Entry(fn)
    /\ pc' = Entry(fn)
    /\ memo' = [l \in StepIds(fn) |-> NoResult]
    /\ last' = [op |-> "replay", step |-> pc]
    /\ UNCHANGED <<fn, event, execCount, failCount, okCount, attempt,
                   status, lastError, outbox, trace, subStatus>>
    /\ UNCHANGED notEngine

\* the engine executes the function again from the top (after a step, a
\* restart or a deployment); the saved results stay
Replay ==
    /\ Running
    /\ pc # Entry(fn)
    /\ pc' = Entry(fn)
    /\ last' = [op |-> "replay", step |-> pc]
    /\ UNCHANGED <<fn, event, memo, execCount, failCount, okCount, attempt,
                   status, lastError, outbox, trace, subStatus>>
    /\ UNCHANGED notEngine

FlowIdle ==
    /\ cfn = "none"
    /\ queued = [u \in Users |-> 0]
    /\ running = [u \in Users |-> 0]

ThemeIdle ==
    /\ config = ThemeConfig
    /\ rendered = [p \in Pages |-> {}]

Init ==
    /\ fn \in Functions
    /\ event \in {TriggerEvent(fn, u, e) : u \in Users, e \in Entities}
    /\ pc = Entry(fn)
    /\ memo = [l \in StepIds(fn) |-> NoResult]
    /\ execCount = [l \in StepIds(fn) |-> 0]
    /\ failCount = [l \in StepIds(fn) |-> 0]
    /\ okCount = [l \in StepIds(fn) |-> 0]
    /\ attempt = 0
    /\ status = "running"
    /\ lastError = "none"
    /\ outbox = <<>>
    /\ trace = <<>>
    /\ last = [op |-> "start", step |-> Entry(fn)]
    /\ subStatus = "active"
    /\ FlowIdle
    /\ ThemeIdle

Next ==
    \/ ReturnMemoized
    \/ \E v \in Values(fn, pc) : RunSucceed(v)
    \/ \E err \in Failures(fn, pc) : RunFail(err)
    \/ Sleep
    \/ \E e \in IncomingEvents : EventArrives(e)
    \/ WaitTimeout
    \/ \E o \in InvokeOutcomes(fn, pc) : Invoke(o)
    \/ SendEvent
    \/ Return
    \/ Throw
    \/ Replay

Spec == Init /\ [][Next]_vars

----------------------------------------------------------------------------
(* Flow control: the runs of one function, admitted under its concurrency
   configuration *)

processGlobalResource == "processGlobalResource"
processUserAction == "processUserAction"

Limited == {processGlobalResource, processUserAction, userOnboardingSequence}

\* concurrency: { limit, key }
Concurrency(f) ==
    CASE f = processGlobalResource -> [limit |-> 10, key |-> "none"]
      [] f = processUserAction -> [limit |-> 2, key |-> "event.data.userId"]
      [] f = userOnboardingSequence -> [limit |-> 1, key |-> "event.data.userId"]

RECURSIVE SumOver(_, _)
SumOver(r, U) ==
    IF U = {} THEN 0
    ELSE LET u == CHOOSE x \in U : TRUE IN r[u] + SumOver(r, U \ {u})

\* the runs of f counted against the limit when a run for user u asks to start
InScope(f, u, r) ==
    IF Concurrency(f).key = "event.data.userId" THEN r[u] ELSE SumOver(r, Users)


\* as HasCapacity, off by one
HasCapacityOffByOne(f, u, r) == InScope(f, u, r) <= Concurrency(f).limit

HasCapacity(f, u, r) == InScope(f, u, r) < Concurrency(f).limit

\* a triggering event for user u arrives: a run is queued
EventTriggers(u) ==
    /\ queued[u] + running[u] < MaxPending
    /\ queued' = [queued EXCEPT ![u] = @ + 1]
    /\ UNCHANGED <<cfn, running, engineVars, themeVars>>

\* a queued run for user u starts executing
StartRun(u) ==
    /\ queued[u] > 0
    /\ HasCapacity(cfn, u, running)
    /\ queued' = [queued EXCEPT ![u] = @ - 1]
    /\ running' = [running EXCEPT ![u] = @ + 1]
    /\ UNCHANGED <<cfn, engineVars, themeVars>>

\* a run for user u ends
FinishRun(u) ==
    /\ running[u] > 0
    /\ running' = [running EXCEPT ![u] = @ - 1]
    /\ UNCHANGED <<cfn, queued, engineVars, themeVars>>

\* the engine's variables while no run is modelled
EngineIdle ==
    /\ fn = sendWelcomeEmail
    /\ event = TriggerEvent(fn, "u1", "e1")
    /\ pc = Entry(fn)
    /\ memo = [l \in StepIds(fn) |-> NoResult]
    /\ execCount = [l \in StepIds(fn) |-> 0]
    /\ failCount = [l \in StepIds(fn) |-> 0]
    /\ okCount = [l \in StepIds(fn) |-> 0]
    /\ attempt = 0
    /\ status = "idle"
    /\ lastError = "none"
    /\ outbox = <<>>
    /\ trace = <<>>
    /\ last = [op |-> "start", step |-> Entry(fn)]
    /\ subStatus = "active"

InitFlow ==
    /\ cfn \in Limited
    /\ queued = [u \in Users |-> 0]
    /\ running = [u \in Users |-> 0]
    /\ EngineIdle
    /\ ThemeIdle

NextFlow ==
    \/ \E u \in Users : EventTriggers(u)
    \/ \E u \in Users : StartRun(u)
    \/ \E u \in Users : FinishRun(u)

SpecFlow == InitFlow /\ [][NextFlow]_vars

----------------------------------------------------------------------------
(* The theme configuration, read by the site's renderer *)

\* the renderer reads one value of the exported object for page p
ReadConfig(p, path) ==
    /\ path \notin rendered[p]
    /\ rendered' = [rendered EXCEPT ![p] = @ \cup {path}]
    /\ UNCHANGED <<config, engineVars, flowVars>>

InitTheme ==
    /\ ThemeIdle
    /\ EngineIdle
    /\ FlowIdle

NextTheme == \E p \in Pages, path \in ConfigPaths : ReadConfig(p, path)

SpecTheme == InitTheme /\ [][NextTheme]_vars

----------------------------------------------------------------------------
(* Properties *)

IsPrefix(s, t) == Len(s) <= Len(t) /\ \A i \in 1..Len(s) : s[i] = t[i]

\* one step of a function of sequential step.run calls, as C1 allows it
SavedStepKept ==
    fn \in Sequential =>
        \A l \in StepIds(fn) :
            /\ Saved(memo[l]) => (execCount'[l] = execCount[l] /\ memo'[l] = memo[l])
            /\ execCount'[l] # execCount[l] =>
                  (/\ l = pc
                   /\ \A i \in 1..(IndexOf(StepSeq(fn), l) - 1) :
                         Saved(memo[StepSeq(fn)[i]]))

\* C1: in a function of sequential step.run calls, a step whose result is saved
\* keeps that result and its callback is never executed again, whatever fails,
\* is retried or is executed again; a callback is executed only at the step the
\* handler is at, and only when every earlier step has a saved result.
MemoizedStepsNeverReexecute == [][SavedStepKept]_vars

\* C1 witness: create-shipment has failed, the function is executed again and
\* update-inventory has just returned its saved result; charge-payment ran once
MemoizedAfterFailure ==
    /\ fn = processOrderWithSteps
    /\ failCount["create-shipment"] > 0
    /\ last = [op |-> "memoized", step |-> "update-inventory"]
    /\ pc = "create-shipment"
    /\ execCount["charge-payment"] = 1

WelcomeStepsInOrder ==
    fn = sendWelcomeEmail =>
        /\ failCount["send-email"] > 0 => Saved(memo["fetch-user"])
        /\ execCount["track-event"] > 0 => memo["send-email"].tag = "ok"
        /\ ~Saved(memo["send-email"]) => ~Saved(memo["track-event"])
        /\ okCount["track-event"] <= 1
        /\ okCount["fetch-user"] <= 1

\* sendWelcomeEmail: once send-email has failed, fetch-user is not executed
FetchUserNotRepeated ==
    (fn = sendWelcomeEmail /\ failCount["send-email"] > 0) =>
        execCount'["fetch-user"] = execCount["fetch-user"]

ConcurrencyLimitsHold ==
    /\ cfn = processGlobalResource => SumOver(running, Users) <= 10
    /\ cfn = processUserAction => \A u \in Users : running[u] <= 2
    /\ cfn = userOnboardingSequence => \A u \in Users : running[u] <= 1
    /\ cfn = processUserAction =>
          \A u \in Users : (queued[u] > 0 /\ running[u] < 2) => ENABLED StartRun(u)
    /\ cfn = userOnboardingSequence =>
          \A u \in Users : (queued[u] > 0 /\ running[u] < 1) => ENABLED StartRun(u)

\* C4 witness: u1 has reached the limit of processUserAction and has a run
\* waiting, while a run of u2 is queued and free to start
UserAtLimitOtherUserFree ==
    /\ cfn = processUserAction
    /\ running["u1"] = 2 /\ queued["u1"] > 0
    /\ running["u2"] < 2 /\ queued["u2"] > 0

\* C5: userOnboardingSequence saves its steps in the order send-welcome-email,
\* wait-2-days, send-follow-up-tips, wait-for-feature-activation and then one
\* final email: the congratulation if and only if the wait returned an event,
\* the re-engagement email if and only if it timed out; never both; and the run
\* completes only after the final email.
OnboardingOrder ==
    fn = userOnboardingSequence =>
        LET w == memo["wait-for-feature-activation"]
            final == IF w.tag = "event" THEN "send-activation-congrats-email"
                                        ELSE "send-re-engagement-email"
        IN  /\ IsPrefix(trace, <<"send-welcome-email", "wait-2-days",
                                 "send-follow-up-tips",
                                 "wait-for-feature-activation", final>>)
            /\ execCount["send-activation-congrats-email"] > 0 => w.tag = "event"
            /\ execCount["send-re-engagement-email"] > 0 => w.tag = "null"
            /\ ~(execCount["send-activation-congrats-email"] > 0
                 /\ execCount["send-re-engagement-email"] > 0)
            /\ status = "completed" => Len(trace) = 5 /\ okCount[final] = 1

\* C5 witness: a run whose wait timed out, completed with the re-engagement email
OnboardingCompletedAfterTimeout ==
    /\ fn = userOnboardingSequence
    /\ status = "completed"
    /\ memo["wait-for-feature-activation"].tag = "null"
    /\ okCount["send-re-engagement-email"] = 1

\* C6: a wait with an `if` expression is resolved only by an event of the
\* awaited name that carries the run's own userId, contentId or reportId; an
\* event that leaves the run waiting is never such an event, and an event for
\* another entity never resumes the run.
WaitResolvesOnlyForOwnEntity ==
    /\ fn = userOnboardingSequence =>
          LET w == memo["wait-for-feature-activation"]
          IN  w.tag = "event" =>
                  /\ w.ev.name = "user/activated_feature_X"
                  /\ w.ev.data.userId = event.data.userId
    /\ fn = contentModerationPipeline =>
          LET w == memo["wait-for-human-review"]
          IN  w.tag = "event" =>
                  /\ w.ev.name = "content/human_review_completed"
                  /\ w.ev.data.contentId = event.data.contentId
    /\ fn = expenseApproval =>
          LET w == memo["wait-for-approval"]
          IN  w.tag = "event" =>
                  /\ w.ev.name = "expense/approved_or_denied"
                  /\ w.ev.data.reportId = event.data.reportId
    /\ (last.op = "ignored" /\ pc = last.step) => ~Saved(memo[pc])
    /\ (fn = userOnboardingSequence /\ last.op = "ignored"
            /\ last.ev.name = "user/activated_feature_X") =>
          last.ev.data.userId # event.data.userId
    /\ (fn = contentModerationPipeline /\ last.op = "ignored"
            /\ last.ev.name = "content/human_review_completed") =>
          last.ev.data.contentId # event.data.contentId
    /\ (fn = expenseApproval /\ last.op = "ignored"
            /\ last.ev.name = "expense/approved_or_denied") =>
          last.ev.data.reportId # event.data.reportId

\* C6 witness: an activation event of another user arrived while the run waited
OtherUsersActivationIgnored ==
    /\ fn = userOnboardingSequence
    /\ pc = "wait-for-feature-activation"
    /\ last.op = "ignored"
    /\ last.ev.name = "user/activated_feature_X"
    /\ last.ev.data.userId # event.data.userId

\* C7: in orderOrchestrator update-inventory, invoke-fulfill-order and
\* send-order-confirmation-email are executed only when invoke-process-payment
\* returned status "succeeded", and in that order.
FulfilmentOnlyAfterPayment ==
    fn = orderOrchestrator =>
        LET p == memo["invoke-process-payment"]
            paid == p.tag = "returned" /\ p.status = "succeeded"
        IN  /\ \A l \in {"update-inventory", "invoke-fulfill-order",
                         "send-order-confirmation-email"} :
                  execCount[l] > 0 => paid
            /\ execCount["invoke-fulfill-order"] > 0 =>
                  memo["update-inventory"].tag = "ok"
            /\ execCount["send-order-confirmation-email"] > 0 =>
                  memo["invoke-fulfill-order"].tag = "returned"
            /\ status = "completed" =>
                  trace = <<"invoke-process-payment", "update-inventory",
                            "invoke-fulfill-order",
                            "send-order-confirmation-email">>

\* C7 witness: an order whose payment succeeded, orchestrated to the end
OrderCompleted ==
    /\ fn = orderOrchestrator
    /\ status = "completed"
    /\ okCount["send-order-confirmation-email"] = 1

\* C8: when the payment invocation threw or returned another status than
\* "succeeded", orderOrchestrator sends user/payment_failed at most once, with
\* the userId, the orderId and the reason; the run never completes, and when it
\* has ended it has sent the event exactly once and has ended with a
\* NonRetriableError without the function having been retried.
PaymentFailureNotifiedOnce ==
    fn = orderOrchestrator =>
        LET p == memo["invoke-process-payment"]
            paid == p.tag = "returned" /\ p.status = "succeeded"
        IN  IF Saved(p) /\ ~paid
            THEN /\ Len(outbox) <= 1
                 /\ \A i \in 1..Len(outbox) :
                       /\ outbox[i].name = "user/payment_failed"
                       /\ outbox[i].data.userId = event.data.userId
                       /\ outbox[i].data.orderId = event.data.orderId
                       /\ p.tag = "error" => outbox[i].data.reason = p.msg
                       /\ p.tag = "returned" =>
                             outbox[i].data.reason \in
                                 {"Payment failed with status: failed",
                                  "Payment failed with status: pending"}
                 /\ status # "completed"
                 /\ status = "failed" =>
                       /\ Len(outbox) = 1
                       /\ lastError = "NonRetriableError"
                       /\ attempt = 0
            ELSE outbox = <<>>

\* C8 witness: the payment invocation threw; the run ended after one event
PaymentThrewRunEnded ==
    /\ fn = orderOrchestrator
    /\ status = "failed"
    /\ memo["invoke-process-payment"].tag = "error"
    /\ Len(outbox) = 1

\* C9: a completed billing run whose payment succeeded has sent
\* subscription/payment_succeeded; one whose payment was still failing after
\* the last attempt has marked the subscription past_due and has sent
\* subscription/payment_failed.
BillingOutcomeEvents ==
    (fn = processSubscriptionBilling /\ status = "completed") =>
        LET paymentSucceeded ==
                \E k \in 1..MAX_PAYMENT_RETRIES : memo[AttemptId(k)].tag = "ok"
            stillFailing == memo[AttemptId(MAX_PAYMENT_RETRIES)].tag = "error"
            sent == {outbox[i].name : i \in 1..Len(outbox)}
        IN  /\ paymentSucceeded => "subscription/payment_succeeded" \in sent
            /\ stillFailing =>
                  subStatus = "past_due" /\ "subscription/payment_failed" \in sent

\* the fields of the configuration object
ThemeConfigShape ==
    /\ DOMAIN config = {"logo", "project", "chat", "docsRepositoryBase", "footer"}
    /\ DOMAIN config.project = {"link"}
    /\ DOMAIN config.chat = {"link"}
    /\ DOMAIN config.footer = {"content"}
    /\ Len(config.project.link) > 0
    /\ Len(config.chat.link) > 0
    /\ Len(config.docsRepositoryBase) > 0
    /\ Len(config.footer.content) > 0

\* C10: the theme configuration has exactly the fields logo, project.link,
\* chat.link, docsRepositoryBase and footer.content, the links and the footer
\* text are non-empty strings, and reading it never changes it.
ThemeConfigIsConstant == []ThemeConfigShape /\ [][config' = config]_vars

\* C10 witness: every value of the configuration has been read for every page
EveryPageRendered == \A p \in Pages : rendered[p] = ConfigPaths

====
